---- MODULE Spec2Model ----
(***************************************************************************)
(* Model of the attendance registration and reporting engine of            *)
(* ProyectoPF/Proyecto.py (class SistemaRegistroAsistencia) and of the     *)
(* asistencia table declared in ProyectoPF/cr.py.                          *)
(*                                                                         *)
(* Text values that are compared by the SQL engine (the fecha column and   *)
(* the bounds of BETWEEN) are sequences of character codes, so that the    *)
(* comparison is the byte-wise one SQLite applies to TEXT.                 *)
(***************************************************************************)
EXTENDS Integers, Sequences, FiniteSets, TLC

VARIABLES
    profesor_materia,   \* self.profesor_materia: dict profesor -> materia
    tabla,              \* TRUE iff table asistencia exists in FIME_v2.db
    asistencia,         \* rows of table asistencia
    sqlite_sequence,    \* AUTOINCREMENT bookkeeping: largest id ever assigned
    archivos,           \* PDF files written so far
    mensaje,            \* last message shown (st.error / st.success / st.warning)
    ultimo,             \* the last operation that ran, with its arguments
    emitidos            \* every id ever assigned by an INSERT

vars == <<profesor_materia, tabla, asistencia, sqlite_sequence, archivos,
          mensaje, ultimo, emitidos>>

----------------------------------------------------------------------------
(* Bounds *)

MaxRegistros == 2       \* calls of registrar_asistencia that reach the INSERT, per behaviour
MaxGlobal == 5          \* the same, in SpecGlobal

----------------------------------------------------------------------------
(* Values *)

OtroMaestro == "Otro maestro"
NULL == "NULL"                      \* Python None / SQL NULL

Nombres == {OtroMaestro, "Ana"}
Materias == {"Calculo", "Fisica"}
CarrerasArg == {"IAS", NULL}        \* carrera argument (None when "No Aplica")
AsistioUI == {"Sí", "No"}           \* the two values of the radio button
AsistioArg == {"Sí", "No", "Tal vez"}

\* datetime.date values
Date(d) == [year |-> 2024, month |-> 1, day |-> d]
\* datetime.datetime values
DateTime(d, h, mi, us) ==
    [year |-> 2024, month |-> 1, day |-> d,
     hour |-> h, minute |-> mi, second |-> 0, microsecond |-> us]

Dias == {9, 10}
Fechas == {Date(d) : d \in Dias}
FechasHora == {DateTime(10, 0, 0, 0), DateTime(10, 8, 30, 125)}

EsDateTime(f) == "hour" \in DOMAIN f

----------------------------------------------------------------------------
(* Text: isoformat and the comparison of TEXT values *)

Digito(n) == 48 + n                 \* character code of a decimal digit

RECURSIVE Pad(_, _)
\* n written with exactly w decimal digits, zero padded
Pad(n, w) == IF w = 0 THEN <<>> ELSE Pad(n \div 10, w - 1) \o <<Digito(n % 10)>>

\* date.isoformat(): YYYY-MM-DD
IsoDate(f) == Pad(f.year, 4) \o <<45>> \o Pad(f.month, 2) \o <<45>> \o Pad(f.day, 2)

\* time part of datetime.isoformat(): HH:MM:SS, and .ffffff when microsecond # 0
IsoTime(f) ==
    Pad(f.hour, 2) \o <<58>> \o Pad(f.minute, 2) \o <<58>> \o Pad(f.second, 2)
    \o (IF f.microsecond # 0 THEN <<46>> \o Pad(f.microsecond, 6) ELSE <<>>)

\* fecha.isoformat() for a date or a datetime (separator 'T')
isoformat(f) == IF EsDateTime(f) THEN IsoDate(f) \o <<84>> \o IsoTime(f)
                ELSE IsoDate(f)

Min(a, b) == IF a <= b THEN a ELSE b

\* a <= b for TEXT under the BINARY collation: memcmp on the common prefix,
\* then the shorter value is the smaller one
TextLeq(a, b) ==
    LET n == Min(Len(a), Len(b))
        dif == {i \in 1..n : a[i] # b[i]}
    IN  IF dif = {} THEN Len(a) <= Len(b)
        ELSE LET i == CHOOSE j \in dif : \A k \in dif : j <= k
             IN  a[i] < b[i]

\* x BETWEEN lo AND hi
Between(x, lo, hi) == TextLeq(lo, x) /\ TextLeq(x, hi)

----------------------------------------------------------------------------
(* cargar_datos: the rosters the reference tables can hold *)

Rosters == UNION {[D -> Materias] : D \in SUBSET Nombres}

profesores == DOMAIN profesor_materia   \* list(profesor_materia.keys())

----------------------------------------------------------------------------
(* registrar_asistencia *)

\* the validation of lines 73-82; the result names the message shown
ValidacionSinMateria(pm, nombre_profesor, materia) ==
    IF nombre_profesor # OtroMaestro /\ nombre_profesor \notin DOMAIN pm
    THEN "UnknownProfessor" ELSE "ok"

ValidacionSinCentinela(pm, nombre_profesor, materia) ==
    IF nombre_profesor \notin DOMAIN pm THEN "UnknownProfessor"
    ELSE IF pm[nombre_profesor] # materia THEN "SubjectMismatch"
    ELSE "ok"

Validacion(pm, nombre_profesor, materia) ==
    IF nombre_profesor # OtroMaestro
    THEN IF nombre_profesor \notin DOMAIN pm THEN "UnknownProfessor"
         ELSE IF pm[nombre_profesor] # materia THEN "SubjectMismatch"
         ELSE "ok"
    ELSE "ok"

MaxId(rows) == IF rows = {} THEN 0
               ELSE CHOOSE i \in {r.id : r \in rows} : \A r \in rows : r.id <= i

\* a rowid table without AUTOINCREMENT: one more than the largest id present
SiguienteIdRowid(rows, seq) == MaxId(rows) + 1

\* INTEGER PRIMARY KEY AUTOINCREMENT: one more than the largest id ever used
SiguienteId(rows, seq) == (IF MaxId(rows) > seq THEN MaxId(rows) ELSE seq) + 1

Fila(id, nombre_profesor, materia, carrera, fecha_iso, asistio) ==
    [id |-> id, profesor |-> nombre_profesor, materia |-> materia,
     carrera |-> carrera, fecha |-> fecha_iso, asistio |-> asistio]

Llamada(op, arg) == [op |-> op, arg |-> arg]

ArgsRegistro(nombre_profesor, materia, carrera, fecha, asistio) ==
    [profesor |-> nombre_profesor, materia |-> materia, carrera |-> carrera,
     fecha |-> fecha, asistio |-> asistio]

\* the INSERT and commit of lines 85-98
Insertar(nombre_profesor, materia, carrera, fecha, asistio) ==
    LET id == SiguienteId(asistencia, sqlite_sequence)
    IN  /\ tabla' = TRUE
        /\ asistencia' = asistencia \cup
              {Fila(id, nombre_profesor, materia, carrera, isoformat(fecha), asistio)}
        /\ sqlite_sequence' = id
        /\ emitidos' = emitidos \cup {id}
        /\ mensaje' = "success_registro"

\* the two "return" statements after st.error left out
registrar_asistencia_sin_return(nombre_profesor, materia, carrera, fecha, asistio) ==
    /\ ultimo' = Llamada("registrar",
                    ArgsRegistro(nombre_profesor, materia, carrera, fecha, asistio))
    /\ Insertar(nombre_profesor, materia, carrera, fecha, asistio)
    /\ UNCHANGED <<profesor_materia, archivos>>

registrar_asistencia(nombre_profesor, materia, carrera, fecha, asistio) ==
    LET v == Validacion(profesor_materia, nombre_profesor, materia)
    IN  /\ ultimo' = Llamada("registrar",
                        ArgsRegistro(nombre_profesor, materia, carrera, fecha, asistio))
        /\ IF v = "ok"
           THEN Insertar(nombre_profesor, materia, carrera, fecha, asistio)
           ELSE /\ mensaje' = v
                /\ UNCHANGED <<tabla, asistencia, sqlite_sequence, emitidos>>
        /\ UNCHANGED <<profesor_materia, archivos>>

----------------------------------------------------------------------------
(* eliminar_registros *)

\* DELETE FROM asistencia WHERE carrera IS NOT NULL
FilasTrasEliminarConCarrera(rows) == {r \in rows : r.carrera = NULL}

\* DELETE FROM asistencia
FilasTrasEliminar(rows) == {}

eliminar_registros ==
    /\ IF tabla
       THEN /\ asistencia' = FilasTrasEliminar(asistencia)
            /\ mensaje' = "success_eliminar"
       ELSE /\ mensaje' = "OperationalError"      \* no such table: asistencia
            /\ UNCHANGED asistencia
    /\ ultimo' = Llamada("eliminar", <<>>)
    /\ UNCHANGED <<profesor_materia, tabla, sqlite_sequence, archivos, emitidos>>

----------------------------------------------------------------------------
(* mostrar_reportes_detallados: the three aggregate queries *)

Cuenta(rows, valor) == Cardinality({r \in rows : r.asistio = valor})

\* SUM(CASE WHEN asistio = 'No' THEN 1 ELSE 0 END) written as "everything
\* that is not 'Sí'"
PerdidasResto(rows) == Cardinality({r \in rows : r.asistio # "Sí"})

\* SUM(CASE WHEN asistio = 'No' THEN 1 ELSE 0 END)
Perdidas(rows) == Cuenta(rows, "No")

\* GROUP BY carrera, profesor, materia with the three aggregates
Agrupar(rows) ==
    LET Clave(r) == <<r.carrera, r.profesor, r.materia>>
    IN  {[carrera |-> g[1], profesor |-> g[2], materia |-> g[3],
          total_clases |-> Cardinality({r \in rows : Clave(r) = g}),
          clases_impartidas |-> Cuenta({r \in rows : Clave(r) = g}, "Sí"),
          clases_perdidas |-> Perdidas({r \in rows : Clave(r) = g})]
         : g \in {Clave(r) : r \in rows}}

\* WHERE profesor = ? AND fecha BETWEEN ? AND ?, the upper bound excluded
FiltroProfesorSemiabierto(rows, profesor, inicio, fin) ==
    {r \in rows : r.profesor = profesor /\ TextLeq(inicio, r.fecha)
                  /\ TextLeq(r.fecha, fin) /\ r.fecha # fin}

\* WHERE profesor = ? AND fecha BETWEEN ? AND ?
FiltroProfesor(rows, profesor, inicio, fin) ==
    {r \in rows : r.profesor = profesor /\ Between(r.fecha, inicio, fin)}

\* WHERE materia = ? AND fecha BETWEEN ? AND ?
FiltroMateria(rows, materia, inicio, fin) ==
    {r \in rows : r.materia = materia /\ Between(r.fecha, inicio, fin)}

\* the per-professor query; inicio and fin are date_input values
ConsultaProfesor(rows, profesor, fecha_inicio, fecha_fin) ==
    Agrupar(FiltroProfesor(rows, profesor, isoformat(fecha_inicio), isoformat(fecha_fin)))

\* the per-subject query
ConsultaMateria(rows, materia, fecha_inicio, fecha_fin) ==
    Agrupar(FiltroMateria(rows, materia, isoformat(fecha_inicio), isoformat(fecha_fin)))

\* num * 100 / den in integer arithmetic (100 written for 100.0), in hundredths
TasaEntera(num, den) == ((num * 100) \div den) * 100

\* ROUND(num * 100.0 / den, 2), as a number of hundredths (66.67 is 6667);
\* ROUND rounds half away from zero
Tasa(num, den) == (2 * 100 * (num * 100) + den) \div (2 * den)

\* the global query: GROUP BY carrera (NULL is one group)
ConsultaGlobal(rows) ==
    {[carrera |-> c,
      total_clases |-> Cardinality({r \in rows : r.carrera = c}),
      tasa_cumplimiento |->
          Tasa(Cuenta({r \in rows : r.carrera = c}, "Sí"),
               Cardinality({r \in rows : r.carrera = c}))]
     : c \in {r.carrera : r \in rows}}

----------------------------------------------------------------------------
(* generar_reporte_pdf and the three report buttons *)

ArchivoProfesor == "reporte_asistencia_profesor.pdf"
ArchivoMateria == "reporte_asistencia_materia.pdf"
ArchivoGlobal == "reporte_global_carrera.pdf"

\* pdf.output(nombre_archivo) and st.success: runs for any datos
EscribirPdf(datos, nombre_archivo) ==
    /\ archivos' = archivos \cup {nombre_archivo}
    /\ mensaje' = "success_reporte"

\* a button handler that calls generar_reporte_pdf whatever the query returned
SiempreHayRegistros(registros) == TRUE

\* "if registros:" / "if estadisticas:"
HayRegistros(registros) == registros # {}

\* the body of a pressed report button, after the query ran
Boton(op, registros, nombre_archivo) ==
    /\ ultimo' = Llamada(op, [registros |-> registros, archivo |-> nombre_archivo])
    /\ IF HayRegistros(registros)
       THEN EscribirPdf(registros, nombre_archivo)
       ELSE /\ mensaje' = "warning_vacio"
            /\ UNCHANGED archivos
    /\ UNCHANGED <<profesor_materia, tabla, asistencia, sqlite_sequence, emitidos>>

\* the query of a report page when table asistencia does not exist: the
\* execute raises, no row is fetched and the button's body does not run
SinTabla(op) ==
    /\ ultimo' = Llamada(op, [registros |-> {}, archivo |-> NULL])
    /\ mensaje' = "OperationalError"
    /\ UNCHANGED <<profesor_materia, tabla, asistencia, sqlite_sequence,
                   archivos, emitidos>>

reporte_profesor(profesor_seleccionado, fecha_inicio, fecha_fin) ==
    IF tabla
    THEN Boton("reporte_profesor",
               ConsultaProfesor(asistencia, profesor_seleccionado, fecha_inicio, fecha_fin),
               ArchivoProfesor)
    ELSE SinTabla("reporte_profesor")

reporte_materia(materia_seleccionada, fecha_inicio, fecha_fin) ==
    IF tabla
    THEN Boton("reporte_materia",
               ConsultaMateria(asistencia, materia_seleccionada, fecha_inicio, fecha_fin),
               ArchivoMateria)
    ELSE SinTabla("reporte_materia")

reporte_global ==
    IF tabla
    THEN Boton("reporte_global", ConsultaGlobal(asistencia), ArchivoGlobal)
    ELSE SinTabla("reporte_global")

\* generar_reporte_pdf called on its own
generar_reporte_pdf(datos, nombre_archivo) ==
    /\ ultimo' = Llamada("generar_reporte_pdf",
                         [registros |-> datos, archivo |-> nombre_archivo])
    /\ EscribirPdf(datos, nombre_archivo)
    /\ UNCHANGED <<profesor_materia, tabla, asistencia, sqlite_sequence, emitidos>>

----------------------------------------------------------------------------
(* Specifications *)

InitCon(rosters) ==
    /\ profesor_materia \in rosters
    /\ tabla \in BOOLEAN
    /\ asistencia = {}
    /\ sqlite_sequence = 0
    /\ archivos = {}
    /\ mensaje = "ninguno"
    /\ ultimo = Llamada("init", <<>>)
    /\ emitidos = {}

\* Registration against every roster, deletion, the global report.
Init == InitCon(Rosters)

Registrar ==
    /\ sqlite_sequence < MaxRegistros
    /\ \E p \in Nombres, m \in Materias, c \in CarrerasArg, a \in AsistioUI :
           registrar_asistencia(p, m, c, Date(10), a)

Eliminar == eliminar_registros

ReporteGlobal == reporte_global

Next == Registrar \/ Eliminar \/ ReporteGlobal

Spec == Init /\ [][Next]_vars

\* Registration with date and datetime values of fecha, the per-professor report.
InitFechas == InitCon({[n \in {"Ana"} |-> "Calculo"]})

RegistrarFechas ==
    /\ sqlite_sequence < MaxRegistros
    /\ \E p \in Nombres, c \in CarrerasArg, f \in Fechas \cup FechasHora,
          a \in AsistioUI :
           registrar_asistencia(p, "Calculo", c, f, a)

ReporteProfesor ==
    \E p \in Nombres, i \in Fechas, f \in Fechas : reporte_profesor(p, i, f)

NextFechas == RegistrarFechas \/ Eliminar \/ ReporteProfesor

SpecFechas == InitFechas /\ [][NextFechas]_vars

\* Registration with any attended value, the three reports, the PDF writer.
InitReportes == InitCon({[n \in {"Ana"} |-> "Calculo"]})

RegistrarReportes ==
    /\ sqlite_sequence < MaxRegistros
    /\ \E p \in Nombres, m \in Materias, a \in AsistioArg :
           registrar_asistencia(p, m, "IAS", Date(10), a)

ReporteMateria ==
    \E m \in Materias, i \in Fechas, f \in Fechas : reporte_materia(m, i, f)

GenerarReportePdf ==
    \E datos \in {{}, ConsultaGlobal(asistencia)} :
        generar_reporte_pdf(datos, ArchivoGlobal)

NextReportes ==
    \/ RegistrarReportes
    \/ Eliminar
    \/ ReporteProfesor
    \/ ReporteMateria
    \/ ReporteGlobal
    \/ GenerarReportePdf

SpecReportes == InitReportes /\ [][NextReportes]_vars

\* Many rows per program, the global report.
InitGlobal == InitCon({[n \in {"Ana"} |-> "Calculo"]})

RegistrarGlobal ==
    /\ sqlite_sequence < MaxGlobal
    /\ \E c \in CarrerasArg, a \in AsistioUI :
           registrar_asistencia(OtroMaestro, "Calculo", c, Date(10), a)

NextGlobal == RegistrarGlobal \/ Eliminar \/ ReporteGlobal

SpecGlobal == InitGlobal /\ [][NextGlobal]_vars

----------------------------------------------------------------------------
(* Claims checked under Spec *)

Ids(rows) == {r.id : r \in rows}

\* the call recorded in ultimo failed the validation of registrar_asistencia
FallaValidacion(u) ==
    /\ u.op = "registrar"
    /\ u.arg.profesor # OtroMaestro
    /\ \/ u.arg.profesor \notin profesores
       \/ profesor_materia[u.arg.profesor] # u.arg.materia

\* C2 as stated: a registration of a professor of the roster with a subject
\* other than the one the roster assigns ends with the SubjectMismatch error.
C2_Original ==
    (/\ ultimo.op = "registrar"
     /\ ultimo.arg.profesor \in profesores
     /\ profesor_materia[ultimo.arg.profesor] # ultimo.arg.materia)
    => mensaje = "SubjectMismatch"

\* C2 amended: a registration of a professor of the roster whose name is not
\* the sentinel "Otro maestro", with a subject other than the one the roster
\* assigns, ends with the SubjectMismatch error.
C2_SubjectMismatch ==
    (/\ ultimo.op = "registrar"
     /\ ultimo.arg.profesor \in profesores
     /\ ultimo.arg.profesor # OtroMaestro
     /\ profesor_materia[ultimo.arg.profesor] # ultimo.arg.materia)
    => mensaje = "SubjectMismatch"

C2_Witness ==
    /\ ultimo.op = "registrar"
    /\ ultimo.arg.profesor \in profesores
    /\ ultimo.arg.profesor # OtroMaestro
    /\ profesor_materia[ultimo.arg.profesor] # ultimo.arg.materia
    /\ mensaje = "SubjectMismatch"

\* C3: a registration that fails validation (unknown professor or subject
\* mismatch) reports the error and leaves the table, its rows, the id
\* sequence and the written files exactly as they were.
C3_FalloSinCambio ==
    [][FallaValidacion(ultimo')
       => /\ mensaje' \in {"UnknownProfessor", "SubjectMismatch"}
          /\ asistencia' = asistencia
          /\ tabla' = tabla
          /\ sqlite_sequence' = sqlite_sequence
          /\ archivos' = archivos]_vars

C3_Witness ==
    /\ FallaValidacion(ultimo)
    /\ mensaje = "UnknownProfessor"
    /\ asistencia # {}
    /\ archivos # {}

SinResultados ==
    /\ \A p \in Nombres, i \in Fechas, f \in Fechas :
           ConsultaProfesor(asistencia, p, i, f) = {}
    /\ \A m \in Materias, i \in Fechas, f \in Fechas :
           ConsultaMateria(asistencia, m, i, f) = {}
    /\ ConsultaGlobal(asistencia) = {}

\* C4: once eliminar_registros has completed, and until the next
\* registration, the three queries return no row.
C4_EliminarVacia ==
    [][/\ (ultimo'.op = "eliminar" /\ mensaje' = "success_eliminar") => SinResultados'
       /\ (SinResultados /\ ultimo'.op # "registrar") => SinResultados']_vars

C4_Witness ==
    /\ ultimo.op = "eliminar"
    /\ mensaje = "success_eliminar"
    /\ emitidos # {}
    /\ SinResultados

\* C5: the id of a new row differs from every id assigned before, also from
\* the ids of rows already deleted; the row stored under an id never changes;
\* no two rows share an id.
C5_IdUnico ==
    [][/\ \A r \in asistencia' :
              /\ r.id \in Ids(asistencia) => r \in asistencia
              /\ r.id \notin Ids(asistencia) => r.id \notin emitidos
       /\ \A r1 \in asistencia', r2 \in asistencia' : r1.id = r2.id => r1 = r2]_vars

C5_Witness ==
    /\ asistencia # {}
    /\ emitidos \ Ids(asistencia) # {}
    /\ ultimo.op = "registrar"

\* C9: a registration under the name "Otro maestro" succeeds whatever the
\* roster holds, and adds exactly one row, which carries the given
\* professor, subject, program, date (as ISO text) and attended value.
C9_OtroMaestro ==
    [][(ultimo'.op = "registrar" /\ ultimo'.arg.profesor = OtroMaestro)
       => /\ mensaje' = "success_registro"
          /\ \E r \in asistencia' :
                /\ r \notin asistencia
                /\ asistencia' = asistencia \cup {r}
                /\ r.profesor = OtroMaestro
                /\ r.materia = ultimo'.arg.materia
                /\ r.carrera = ultimo'.arg.carrera
                /\ r.fecha = isoformat(ultimo'.arg.fecha)
                /\ r.asistio = ultimo'.arg.asistio]_vars

C9_Witness ==
    /\ ultimo.op = "registrar"
    /\ ultimo.arg.profesor = OtroMaestro
    /\ profesores = {}
    /\ mensaje = "success_registro"
    /\ Cardinality(asistencia) = 2

----------------------------------------------------------------------------
(* Claims checked under SpecFechas *)

\* the row of a query result for group (carrera, profesor, materia), as
\* <<total, attended, missed>>; a group without a row counts as <<0, 0, 0>>
Conteo(registros, carrera, profesor, materia) ==
    LET filas == {x \in registros : /\ x.carrera = carrera
                                    /\ x.profesor = profesor
                                    /\ x.materia = materia}
    IN  IF filas = {} THEN <<0, 0, 0>>
        ELSE LET x == CHOOSE y \in filas : TRUE
             IN  <<x.total_clases, x.clases_impartidas, x.clases_perdidas>>

\* C1: a registration of a professor of the roster with the assigned
\* subject, any program, any fecha d and attended "Sí" succeeds, and the
\* per-professor query from d to d then shows for the group (carrera,
\* profesor, materia) one more class in total, one more attended and as many
\* missed as before the call (0, 0, 0 for a group that had no row).
C1_RegistroCuenta ==
    [][(/\ ultimo'.op = "registrar"
        /\ ultimo'.arg.profesor \in profesores
        /\ profesor_materia[ultimo'.arg.profesor] = ultimo'.arg.materia
        /\ ultimo'.arg.asistio = "Sí")
       => LET a == ultimo'.arg
              d == a.fecha
              antes == Conteo(ConsultaProfesor(asistencia, a.profesor, d, d),
                              a.carrera, a.profesor, a.materia)
              despues == Conteo(ConsultaProfesor(asistencia', a.profesor, d, d),
                                a.carrera, a.profesor, a.materia)
          IN  /\ mensaje' = "success_registro"
              /\ despues = <<antes[1] + 1, antes[2] + 1, antes[3]>>]_vars

C1_Witness ==
    /\ ultimo.op = "registrar"
    /\ ultimo.arg.profesor \in profesores
    /\ profesor_materia[ultimo.arg.profesor] = ultimo.arg.materia
    /\ ultimo.arg.asistio = "Sí"
    /\ mensaje = "success_registro"
    /\ Conteo(ConsultaProfesor(asistencia, ultimo.arg.profesor,
                               ultimo.arg.fecha, ultimo.arg.fecha),
              ultimo.arg.carrera, ultimo.arg.profesor, ultimo.arg.materia)
           = <<2, 1, 1>>

RECURSIVE Numero(_)
\* the number a sequence of digit characters writes
Numero(t) == IF t = <<>> THEN 0
             ELSE 10 * Numero(SubSeq(t, 1, Len(t) - 1)) + (t[Len(t)] - 48)

\* the calendar date a stored fecha text names (its first ten characters)
FechaDeTexto(t) ==
    [year |-> Numero(SubSeq(t, 1, 4)), month |-> Numero(SubSeq(t, 6, 7)),
     day |-> Numero(SubSeq(t, 9, 10))]

\* calendar order of dates
DateLeq(a, b) ==
    \/ a.year < b.year
    \/ a.year = b.year /\ a.month < b.month
    \/ a.year = b.year /\ a.month = b.month /\ a.day <= b.day

\* C6: the per-professor query returns exactly one row for each (carrera,
\* profesor, materia) among the rows of that professor whose calendar date
\* is in [inicio, fin], both ends included, with their number as total, and
\* no other row.
C6_RangoInclusivo ==
    \A p \in Nombres, i \in Fechas, f \in Fechas :
        LET enRango == {r \in asistencia :
                           /\ r.profesor = p
                           /\ DateLeq(i, FechaDeTexto(r.fecha))
                           /\ DateLeq(FechaDeTexto(r.fecha), f)}
            Clave(r) == <<r.carrera, r.profesor, r.materia>>
            registros == ConsultaProfesor(asistencia, p, i, f)
        IN  /\ \A g \in {Clave(r) : r \in enRango} :
                   /\ Cardinality({x \in registros : Clave(x) = g}) = 1
                   /\ \A x \in registros :
                          Clave(x) = g =>
                              x.total_clases =
                                  Cardinality({r \in enRango : Clave(r) = g})
            /\ \A x \in registros : Clave(x) \in {Clave(r) : r \in enRango}

----------------------------------------------------------------------------
(* Claims checked under SpecReportes *)

Botones == {"reporte_profesor", "reporte_materia", "reporte_global"}

\* C8 as stated: whenever the PDF export is reached with no row, through one
\* of the three reports or by a call of generar_reporte_pdf, no file is
\* written and the empty result is reported.
C8_Original ==
    [][(/\ ultimo'.op \in Botones \cup {"generar_reporte_pdf"}
        /\ mensaje' # "OperationalError"
        /\ ultimo'.arg.registros = {})
       => /\ archivos' = archivos
          /\ mensaje' = "warning_vacio"]_vars

\* C8 amended: in each of the three reports, a query that returns no row
\* writes no file and shows the empty-result warning; generar_reporte_pdf
\* itself, called with no row, writes the file and reports success.
C8_SinRegistrosSinPdf ==
    [][/\ (/\ ultimo'.op \in Botones
           /\ mensaje' # "OperationalError"
           /\ ultimo'.arg.registros = {})
          => /\ archivos' = archivos
             /\ mensaje' = "warning_vacio"
       /\ (ultimo'.op = "generar_reporte_pdf" /\ ultimo'.arg.registros = {})
          => /\ archivos' = archivos \cup {ultimo'.arg.archivo}
             /\ mensaje' = "success_reporte"]_vars

C8_Witness ==
    /\ ultimo.op = "reporte_profesor"
    /\ ultimo.arg.registros = {}
    /\ mensaje = "warning_vacio"
    /\ asistencia # {}
    /\ ArchivoProfesor \notin archivos

ResultadosDetallados ==
    UNION ({ConsultaProfesor(asistencia, p, i, f) :
                p \in Nombres, i \in Fechas, f \in Fechas}
           \cup {ConsultaMateria(asistencia, m, i, f) :
                     m \in Materias, i \in Fechas, f \in Fechas})

\* C10 as stated: in every row of the per-professor and per-subject queries
\* the total is the attended count plus the missed count.
C10_Original ==
    \A x \in ResultadosDetallados :
        x.total_clases = x.clases_impartidas + x.clases_perdidas

\* the rows of a group whose asistio is neither 'Sí' nor 'No'
Otros(rows, x) ==
    {r \in rows : /\ r.carrera = x.carrera
                  /\ r.profesor = x.profesor
                  /\ r.materia = x.materia
                  /\ r.asistio \notin {"Sí", "No"}}

\* C10 amended: in every row of the per-professor and per-subject queries the
\* total is the attended count plus the missed count plus the number of rows
\* of the group, among those the query selected, whose asistio is neither
\* "Sí" nor "No"; so the total equals attended plus missed exactly when the
\* group holds no such row.
C10_TotalConOtros ==
    /\ \A p \in Nombres, i \in Fechas, f \in Fechas :
           \A x \in ConsultaProfesor(asistencia, p, i, f) :
               x.total_clases = x.clases_impartidas + x.clases_perdidas
                   + Cardinality(Otros(FiltroProfesor(asistencia, p,
                                           isoformat(i), isoformat(f)), x))
    /\ \A m \in Materias, i \in Fechas, f \in Fechas :
           \A x \in ConsultaMateria(asistencia, m, i, f) :
               x.total_clases = x.clases_impartidas + x.clases_perdidas
                   + Cardinality(Otros(FiltroMateria(asistencia, m,
                                           isoformat(i), isoformat(f)), x))

C10_Witness ==
    \E x \in ResultadosDetallados :
        /\ x.total_clases = 2
        /\ x.clases_impartidas = 1
        /\ x.clases_perdidas = 0

----------------------------------------------------------------------------
(* Claims checked under SpecGlobal *)

Abs(n) == IF n < 0 THEN -n ELSE n

\* C7: the global query returns one row for each program with rows and none
\* for a program without; the row's total is the number n of rows of the
\* program and its rate, in hundredths, is the integer nearest to
\* 10000 * k / n, k being the number of rows with asistio "Sí".
C7_TasaGlobal ==
    LET registros == ConsultaGlobal(asistencia)
    IN  \A c \in CarrerasArg :
            LET n == Cardinality({r \in asistencia : r.carrera = c})
                k == Cardinality({r \in asistencia :
                                      r.carrera = c /\ r.asistio = "Sí"})
                filas == {x \in registros : x.carrera = c}
            IN  /\ n = 0 => filas = {}
                /\ n > 0 =>
                       /\ Cardinality(filas) = 1
                       /\ \A x \in filas :
                              /\ x.total_clases = n
                              /\ 2 * Abs(x.tasa_cumplimiento * n - 10000 * k) <= n

C7_Witness ==
    /\ ultimo.op = "reporte_global"
    /\ \E x \in ultimo.arg.registros :
           x.total_clases = 3 /\ x.tasa_cumplimiento = 6667
    /\ \E x \in ConsultaGlobal(asistencia) :
           x.total_clases = 3 /\ x.tasa_cumplimiento = 6667

====
